---------------------------- MODULE Spec2Model ----------------------------
(***************************************************************************)
(* Model of src/features/modals/NodeModal/index.tsx: the three helpers     *)
(* normalizeNodeData, jsonPathToString and updateJsonAtPath, and the       *)
(* NodeModal component's state (isEditing, editedContent, originalContent) *)
(* with its handlers.                                                      *)
(*                                                                         *)
(* A text (a JavaScript string) is a sequence of one-character strings.    *)
(* A JavaScript value is a record whose field kind is one of                *)
(*   "undefined", "null"                                                   *)
(*   "bool"                   with b \in BOOLEAN                           *)
(*   "num"                    with n \in Nat                               *)
(*   "str"                    with chars, the text                         *)
(*   "arr"                    with elems, the sequence of the elements     *)
(*   "obj"                    with members, the sequence of the own        *)
(*                            properties [key, val], in property order     *)
(*   "native"                 a function or prototype object of the        *)
(*                            runtime (Object, Object.prototype, ...),     *)
(*                            reached only through inherited properties    *)
(***************************************************************************)
EXTENDS Integers, Sequences, FiniteSets

VARIABLES
    json,             \* useJson store: the document text
    contents,         \* useFile store: the file contents
    hasChanges,       \* useFile store: the dirty flag
    nodeData,         \* useGraph store: selectedNode, or Undefined
    opened,           \* the modal's opened prop
    isEditing,        \* React state
    editedContent,    \* React state
    originalContent,  \* React state
    toast,            \* the last notification: <<kind, message>>
    event,            \* history: the handler that ran last
    committed,        \* history: the text of the last load or successful save
    args,             \* the arguments of a direct call of a helper
    result            \* what the call returned

vars == <<json, contents, hasChanges, nodeData, opened, isEditing,
          editedContent, originalContent, toast, event, committed, args, result>>

modalVars == <<json, contents, hasChanges, nodeData, opened, isEditing,
               editedContent, originalContent, toast, event, committed>>

----------------------------------------------------------------------------
(* JavaScript values *)

Undefined == [kind |-> "undefined"]
Null == [kind |-> "null"]
Native == [kind |-> "native"]
Bool(b) == [kind |-> "bool", b |-> b]
Num(n) == [kind |-> "num", n |-> n]
Str(s) == [kind |-> "str", chars |-> s]
Arr(s) == [kind |-> "arr", elems |-> s]
Obj(s) == [kind |-> "obj", members |-> s]
Prop(k, v) == [key |-> k, val |-> v]

Digits == <<"0", "1", "2", "3", "4", "5", "6", "7", "8", "9">>
DigitSet == {Digits[i] : i \in 1..10}
DigitValue(c) == (CHOOSE i \in 1..10 : Digits[i] = c) - 1
Whitespace == {" ", "\n", "\t", "\r"}

\* Number::toString of a non-negative integer
RECURSIVE NumberToString(_)
NumberToString(n) ==
    IF n < 10 THEN <<Digits[n + 1]>>
    ELSE NumberToString(n \div 10) \o <<Digits[(n % 10) + 1]>>

\* the value of a text of digits
RECURSIVE DigitsToNumber(_)
DigitsToNumber(s) ==
    IF s = <<>> THEN 0
    ELSE 10 * DigitsToNumber(SubSeq(s, 1, Len(s) - 1)) + DigitValue(s[Len(s)])

\* a canonical numeric string "0", "1", ..., "10", ...: an integer-index key
IsIndexKey(k) ==
    /\ k # <<>>
    /\ \A i \in 1..Len(k) : k[i] \in DigitSet
    /\ (Len(k) > 1 => k[1] # "0")

\* ToString, as a template literal `${v}` applies it
ToString(v) ==
    CASE v.kind = "undefined" -> <<"u", "n", "d", "e", "f", "i", "n", "e", "d">>
      [] v.kind = "null" -> <<"n", "u", "l", "l">>
      [] v.kind = "bool" -> IF v.b THEN <<"t", "r", "u", "e">>
                            ELSE <<"f", "a", "l", "s", "e">>
      [] v.kind = "num" -> NumberToString(v.n)
      [] v.kind = "str" -> v.chars
      [] OTHER -> <<"[", "o", "b", "j", "e", "c", "t", "]">>

\* ToPropertyKey of a path segment or a row key
ToPropertyKey(seg) == ToString(seg)

\* ToBoolean
Truthy(v) ==
    CASE v.kind \in {"undefined", "null"} -> FALSE
      [] v.kind = "bool" -> v.b
      [] v.kind = "num" -> v.n # 0
      [] v.kind = "str" -> v.chars # <<>>
      [] OTHER -> TRUE

----------------------------------------------------------------------------
(* Own properties, in JavaScript's property order: integer-index keys in  *)
(* ascending order, then the other keys in creation order.                *)

HasOwn(members, k) == \E i \in 1..Len(members) : members[i].key = k
OwnIndex(members, k) == CHOOSE i \in 1..Len(members) : members[i].key = k
OwnValue(members, k) == members[OwnIndex(members, k)].val

\* where a new integer-index key goes: before the first member that is not
\* an integer index or is a greater one
InsertAt(members, k) ==
    LET later == {i \in 1..Len(members) :
                    \/ ~IsIndexKey(members[i].key)
                    \/ DigitsToNumber(members[i].key) > DigitsToNumber(k)}
    IN  IF later = {} THEN Len(members) + 1
        ELSE CHOOSE i \in later : \A j \in later : i <= j

\* CreateDataProperty / [[Set]] of an own data property
ObjPut(members, k, v) ==
    IF HasOwn(members, k)
    THEN [members EXCEPT ![OwnIndex(members, k)] = Prop(k, v)]
    ELSE IF IsIndexKey(k)
    THEN LET p == InsertAt(members, k)
         IN  SubSeq(members, 1, p - 1) \o <<Prop(k, v)>> \o
             SubSeq(members, p, Len(members))
    ELSE Append(members, Prop(k, v))

----------------------------------------------------------------------------
(* JSON.stringify(value, null, 2) *)

Repeat(c, n) == [i \in 1..n |-> c]
Indent(level) == Repeat(" ", 2 * level)

\* QuoteJSONString: the quote and the backslash are escaped
RECURSIVE EscapeChars(_)
EscapeChars(s) ==
    IF s = <<>> THEN <<>>
    ELSE (IF s[1] \in {"\"", "\\"} THEN <<"\\", s[1]>> ELSE <<s[1]>>)
         \o EscapeChars(Tail(s))

Quote(s) == <<"\"">> \o EscapeChars(s) \o <<"\"">>

\* a value JSON.stringify leaves out of an object and writes as null in an array
Unserializable(v) == v.kind \in {"undefined", "native"}

RECURSIVE SerializeJSONProperty(_, _)
RECURSIVE SerializeElements(_, _)
RECURSIVE SerializeMembers(_, _, _)

\* the elements of an array, one per line, at indentation `level`
SerializeElements(elems, level) ==
    IF elems = <<>> THEN <<>>
    ELSE Indent(level)
         \o (IF Unserializable(elems[1]) THEN <<"n", "u", "l", "l">>
             ELSE SerializeJSONProperty(elems[1], level))
         \o (IF Len(elems) > 1 THEN <<",", "\n">> ELSE <<>>)
         \o SerializeElements(Tail(elems), level)

\* the serializable members of an object, one per line; `first` until one is
\* written
SerializeMembers(members, level, first) ==
    IF members = <<>> THEN <<>>
    ELSE IF Unserializable(members[1].val)
    THEN SerializeMembers(Tail(members), level, first)
    ELSE (IF first THEN <<>> ELSE <<",", "\n">>)
         \o Indent(level) \o Quote(members[1].key) \o <<":", " ">>
         \o SerializeJSONProperty(members[1].val, level)
         \o SerializeMembers(Tail(members), level, FALSE)

\* the serialized members `inner` of an object between its braces
Braces(inner, level) ==
    IF inner = <<>> THEN <<"{", "}">>
    ELSE <<"{", "\n">> \o inner \o <<"\n">> \o Indent(level) \o <<"}">>

SerializeJSONProperty(v, level) ==
    CASE v.kind = "arr" ->
            IF v.elems = <<>> THEN <<"[", "]">>
            ELSE <<"[", "\n">> \o SerializeElements(v.elems, level + 1)
                 \o <<"\n">> \o Indent(level) \o <<"]">>
      [] v.kind = "obj" ->
            Braces(SerializeMembers(v.members, level + 1, TRUE), level)
      [] v.kind = "str" -> Quote(v.chars)
      [] OTHER -> ToString(v)

\* JSON.stringify(v, null, 2) of a value that is not undefined
JSONstringify(v) == SerializeJSONProperty(v, 0)

----------------------------------------------------------------------------
(* JSON.parse: [ok, val, next]; ok = FALSE is the SyntaxError it throws.   *)
(* Numbers are the non-negative integers; the escapes of a string are \"   *)
(* and \\.  The parser is written as a chain of operators, one per         *)
(* position in the grammar.                                                *)

ParseFail == [ok |-> FALSE, val |-> Undefined, next |-> 0]
Parsed(v, n) == [ok |-> TRUE, val |-> v, next |-> n]

RECURSIVE SkipWhitespace(_, _)
SkipWhitespace(t, i) ==
    IF i <= Len(t) /\ t[i] \in Whitespace THEN SkipWhitespace(t, i + 1) ELSE i

\* text t holds the character c at position i
HasChar(t, i, c) == i <= Len(t) /\ t[i] = c

\* text t holds the word w at position i
HasWord(t, i, w) ==
    /\ i + Len(w) - 1 <= Len(t)
    /\ SubSeq(t, i, i + Len(w) - 1) = w

\* the characters of a string literal after its opening quote
RECURSIVE ParseString(_, _, _)
ParseString(t, i, acc) ==
    IF i > Len(t) THEN ParseFail
    ELSE IF t[i] = "\"" THEN Parsed(Str(acc), i + 1)
    ELSE IF t[i] = "\\"
    THEN IF i + 1 <= Len(t) /\ t[i + 1] \in {"\"", "\\"}
         THEN ParseString(t, i + 2, Append(acc, t[i + 1]))
         ELSE ParseFail
    ELSE IF t[i] \in {"\n", "\t", "\r"} THEN ParseFail
    ELSE ParseString(t, i + 1, Append(acc, t[i]))

\* the end of the run of digits that starts at i
RECURSIVE DigitsEnd(_, _)
DigitsEnd(t, i) ==
    IF i <= Len(t) /\ t[i] \in DigitSet THEN DigitsEnd(t, i + 1) ELSE i

\* the digits t[i..e-1]; no leading zero
NumberUpTo(t, i, e) ==
    IF t[i] = "0" /\ e > i + 1 THEN ParseFail
    ELSE Parsed(Num(DigitsToNumber(SubSeq(t, i, e - 1))), e)

ParseNumber(t, i) == NumberUpTo(t, i, DigitsEnd(t, i))

RECURSIVE ParseValue(_, _)
RECURSIVE ParseElements(_, _, _)
RECURSIVE ParseMembers(_, _, _)

\* after the elements `elems`, at j: "," and more elements, or "]"
ElementsNext(t, j, elems) ==
    IF j > Len(t) THEN ParseFail
    ELSE IF t[j] = "," THEN ParseElements(t, j + 1, elems)
    ELSE IF t[j] = "]" THEN Parsed(Arr(elems), j + 1)
    ELSE ParseFail

\* the element r was parsed after the elements acc
ElementParsed(t, r, acc) ==
    IF ~r.ok THEN ParseFail
    ELSE ElementsNext(t, SkipWhitespace(t, r.next), Append(acc, r.val))

\* after "[" or after a ",": an element, then "," or "]"
ParseElements(t, i, acc) == ElementParsed(t, ParseValue(t, i), acc)

\* after the members `members`, at j: "," and more members, or "}"
MembersNext(t, j, members) ==
    IF j > Len(t) THEN ParseFail
    ELSE IF t[j] = "," THEN ParseMembers(t, j + 1, members)
    ELSE IF t[j] = "}" THEN Parsed(Obj(members), j + 1)
    ELSE ParseFail

\* the value r of the member with key k was parsed after the members acc
MemberParsed(t, k, r, acc) ==
    IF ~r.ok THEN ParseFail
    ELSE MembersNext(t, SkipWhitespace(t, r.next), ObjPut(acc, k, r.val))

\* after the key k, at c: ":" and the member's value
MemberColon(t, k, c, acc) ==
    IF HasChar(t, c, ":") THEN MemberParsed(t, k, ParseValue(t, c + 1), acc)
    ELSE ParseFail

\* the key was parsed
MemberKeyParsed(t, key, acc) ==
    IF ~key.ok THEN ParseFail
    ELSE MemberColon(t, key.val.chars, SkipWhitespace(t, key.next), acc)

\* at k: the opening quote of a member's key
MemberKey(t, k, acc) ==
    IF HasChar(t, k, "\"") THEN MemberKeyParsed(t, ParseString(t, k + 1, <<>>), acc)
    ELSE ParseFail

\* after "{" or after a ",": a "key": value member, then "," or "}"
ParseMembers(t, i, acc) == MemberKey(t, SkipWhitespace(t, i), acc)

\* after "{", at j: "}" or the members
ObjectBody(t, j) ==
    IF HasChar(t, j, "}") THEN Parsed(Obj(<<>>), j + 1) ELSE ParseMembers(t, j, <<>>)

\* after "[", at j: "]" or the elements
ArrayBody(t, j) ==
    IF HasChar(t, j, "]") THEN Parsed(Arr(<<>>), j + 1) ELSE ParseElements(t, j, <<>>)

\* the value that starts at i, which is no whitespace
ValueAt(t, i) ==
    IF i > Len(t) THEN ParseFail
    ELSE IF t[i] = "{" THEN ObjectBody(t, SkipWhitespace(t, i + 1))
    ELSE IF t[i] = "[" THEN ArrayBody(t, SkipWhitespace(t, i + 1))
    ELSE IF t[i] = "\"" THEN ParseString(t, i + 1, <<>>)
    ELSE IF t[i] \in DigitSet THEN ParseNumber(t, i)
    ELSE IF HasWord(t, i, <<"t", "r", "u", "e">>) THEN Parsed(Bool(TRUE), i + 4)
    ELSE IF HasWord(t, i, <<"f", "a", "l", "s", "e">>) THEN Parsed(Bool(FALSE), i + 5)
    ELSE IF HasWord(t, i, <<"n", "u", "l", "l">>) THEN Parsed(Null, i + 4)
    ELSE ParseFail

ParseValue(t, i) == ValueAt(t, SkipWhitespace(t, i))

\* the whole text must be one value
WholeText(t, r) ==
    IF r.ok /\ SkipWhitespace(t, r.next) > Len(t)
    THEN [ok |-> TRUE, val |-> r.val]
    ELSE [ok |-> FALSE, val |-> Undefined]

\* JSON.parse(t): [ok, val]; ok = FALSE when it throws
JSONparse(t) == WholeText(t, ParseValue(t, 1))

----------------------------------------------------------------------------
(* Property access of the runtime, in strict mode (the file is an ES       *)
(* module).                                                                *)

LengthKey == <<"l", "e", "n", "g", "t", "h">>
ProtoKey == <<"_", "_", "p", "r", "o", "t", "o", "_", "_">>
ConstructorKey == <<"c", "o", "n", "s", "t", "r", "u", "c", "t", "o", "r">>

\* the keys every object inherits from Object.prototype that the model knows
InheritedKeys == {ConstructorKey, ProtoKey}

Thrown == [ok |-> FALSE, val |-> Undefined, own |-> FALSE]
Got(v, isOwn) == [ok |-> TRUE, val |-> v, own |-> isOwn]

\* k is an index of the sequence s (an array's elements, a string's characters)
IsElementKey(s, k) == IsIndexKey(k) /\ DigitsToNumber(k) < Len(s)

\* v[seg]: [ok, val, own]; ok = FALSE is the TypeError of a read on undefined
\* or null, own says that val is an own property of v
Get(v, seg) ==
    LET k == ToPropertyKey(seg)
        inherited == IF k \in InheritedKeys THEN Got(Native, FALSE)
                     ELSE Got(Undefined, FALSE)
    IN  CASE v.kind \in {"undefined", "null"} -> Thrown
          [] v.kind = "obj" ->
                IF HasOwn(v.members, k) THEN Got(OwnValue(v.members, k), TRUE)
                ELSE inherited
          [] v.kind = "arr" ->
                IF IsElementKey(v.elems, k)
                THEN Got(v.elems[DigitsToNumber(k) + 1], TRUE)
                ELSE IF k = LengthKey THEN Got(Num(Len(v.elems)), FALSE)
                ELSE inherited
          [] v.kind = "str" ->
                IF IsElementKey(v.chars, k)
                THEN Got(Str(<<v.chars[DigitsToNumber(k) + 1]>>), FALSE)
                ELSE IF k = LengthKey THEN Got(Num(Len(v.chars)), FALSE)
                ELSE inherited
          [] v.kind = "native" ->
                IF k = LengthKey THEN Got(Num(1), FALSE) ELSE inherited
          [] OTHER -> inherited

NaN == -1

\* ToNumber of a text: the empty text is 0, digits are their value
StringToNumber(s) ==
    IF s = <<>> THEN 0
    ELSE IF \A i \in 1..Len(s) : s[i] \in DigitSet THEN DigitsToNumber(s)
    ELSE NaN

\* ToNumber, NaN for what is no non-negative integer
ToNumber(v) ==
    CASE v.kind = "num" -> v.n
      [] v.kind = "bool" -> IF v.b THEN 1 ELSE 0
      [] v.kind = "null" -> 0
      [] v.kind = "str" -> StringToNumber(v.chars)
      [] v.kind = "arr" ->
            IF v.elems = <<>> THEN 0
            ELSE IF Len(v.elems) = 1 /\ v.elems[1].kind \in {"null", "undefined"} THEN 0
            ELSE IF Len(v.elems) = 1 /\ v.elems[1].kind \in {"num", "bool", "str"}
            THEN StringToNumber(ToString(v.elems[1]))
            ELSE NaN
      [] OTHER -> NaN

\* the elements after elems[i] = x, the array grown with holes up to i
ArrayPut(elems, i, x) ==
    [j \in 1..(IF i > Len(elems) THEN i ELSE Len(elems)) |->
        IF j = i THEN x ELSE IF j <= Len(elems) THEN elems[j] ELSE Undefined]

\* the elements after elems.length = n
ArraySetLength(elems, n) ==
    [j \in 1..n |-> IF j <= Len(elems) THEN elems[j] ELSE Undefined]

Assigned(v) == [ok |-> TRUE, val |-> v]
AssignThrows == [ok |-> FALSE, val |-> Undefined]

\* v[seg] = x in strict mode: [ok, val], val being v as JSON.stringify will
\* see it afterwards; ok = FALSE is the TypeError or RangeError thrown
Set(v, seg, x) ==
    LET k == ToPropertyKey(seg)
    IN  CASE v.kind \in {"undefined", "null"} -> AssignThrows
          [] v.kind = "obj" ->
                IF k = ProtoKey /\ ~HasOwn(v.members, k)
                THEN Assigned(v)        \* the __proto__ setter: no own property
                ELSE Assigned(Obj(ObjPut(v.members, k, x)))
          [] v.kind = "arr" ->
                IF IsIndexKey(k)
                THEN Assigned(Arr(ArrayPut(v.elems, DigitsToNumber(k) + 1, x)))
                ELSE IF k = LengthKey
                THEN IF ToNumber(x) = NaN THEN AssignThrows
                     ELSE Assigned(Arr(ArraySetLength(v.elems, ToNumber(x))))
                ELSE Assigned(v)        \* a property that is no element
          [] v.kind = "native" ->
                IF k = LengthKey THEN AssignThrows ELSE Assigned(v)
          [] OTHER ->                   \* a boolean, a number, a string
                IF k = ProtoKey THEN Assigned(v) ELSE AssignThrows

\* the tree `root` with the node at the own-property path `at` replaced
RECURSIVE ReplaceAt(_, _, _)
ReplaceAt(root, at, node) ==
    IF at = <<>> THEN node
    ELSE IF root.kind = "obj"
    THEN Obj([root.members EXCEPT ![OwnIndex(root.members, at[1])] =
                Prop(at[1], ReplaceAt(OwnValue(root.members, at[1]), Tail(at), node))])
    ELSE Arr([root.elems EXCEPT ![DigitsToNumber(at[1]) + 1] =
                ReplaceAt(root.elems[DigitsToNumber(at[1]) + 1], Tail(at), node)])

----------------------------------------------------------------------------
(* updateJsonAtPath, lines 33-56 *)

Return(text) == [ok |-> TRUE, text |-> text, error |-> ""]
Throw(message) == [ok |-> FALSE, text |-> <<>>, error |-> message]

\* the cursor of the loop of lines 44-46: [ok, current, attached, at];
\* attached says that current is a node of the parsed document, at its path
Cursor(ok, v, attached, at) ==
    [ok |-> ok, current |-> v, attached |-> attached, at |-> at]

\* the cursor after current = current[seg] (line 45), g being the lookup
Advance(cur, seg, g) ==
    IF ~g.ok THEN Cursor(FALSE, Undefined, FALSE, <<>>)
    ELSE Cursor(TRUE, g.val, cur.attached /\ g.own, Append(cur.at, ToPropertyKey(seg)))

\* Navigate with the loop bound one too far (i < path.length): the cursor
\* ends on the target instead of its parent
RECURSIVE NavigateIntoTarget(_, _, _)
NavigateIntoTarget(cur, segs, i) ==
    IF i > Len(segs) \/ ~cur.ok THEN cur
    ELSE NavigateIntoTarget(Advance(cur, segs[i], Get(cur.current, segs[i])),
                            segs, i + 1)

\* lines 44-46, from segment i (1-based) on
RECURSIVE Navigate(_, _, _)
Navigate(cur, segs, i) ==
    IF i > Len(segs) - 1 \/ ~cur.ok THEN cur
    ELSE Navigate(Advance(cur, segs[i], Get(cur.current, segs[i])), segs, i + 1)

\* the path is undefined, or an array of segments
PathIsEmpty(path) == ~Truthy(path) \/ Len(path.elems) = 0

\* line 52, after the assignment `set` of line 50 on the cursor
Serialize(root, cur, set) ==
    IF ~set.ok THEN Throw("Invalid JSON format")
    ELSE Return(JSONstringify(IF cur.attached THEN ReplaceAt(root, cur.at, set.val)
                              ELSE root))

\* lines 49-52, with the cursor on the parent of the target
AssignLast(root, cur, lastKey, x) ==
    IF ~cur.ok THEN Throw("Invalid JSON format")
    ELSE Serialize(root, cur, Set(cur.current, lastKey, x))

\* lines 37-55, after the two parses of lines 35-36
UpdateParsed(parsedJson, path, parsedValue) ==
    IF ~parsedJson.ok \/ ~parsedValue.ok THEN Throw("Invalid JSON format")
    ELSE IF PathIsEmpty(path) THEN Return(JSONstringify(parsedValue.val))
    ELSE AssignLast(parsedJson.val,
                    Navigate(Cursor(TRUE, parsedJson.val, TRUE, <<>>), path.elems, 1),
                    path.elems[Len(path.elems)], parsedValue.val)

\* lines 37-41 with the document parsed only when the path is not empty
UpdateParsedValueFirst(path, parsedValue) ==
    IF ~parsedValue.ok THEN Throw("Invalid JSON format")
    ELSE IF PathIsEmpty(path) THEN Return(JSONstringify(parsedValue.val))
    ELSE Throw("Invalid JSON format")

\* updateJsonAtPath with the empty-path return ahead of the parse of the
\* document: a malformed document goes unnoticed when the path is empty
updateJsonAtPathLazyParse(jsonText, path, newValue) ==
    UpdateParsedValueFirst(path, JSONparse(newValue))

\* lines 37-41 with the document serialized in place of the new value
UpdateParsedKeepsRoot(parsedJson, path, parsedValue) ==
    IF ~parsedJson.ok \/ ~parsedValue.ok THEN Throw("Invalid JSON format")
    ELSE IF PathIsEmpty(path) THEN Return(JSONstringify(parsedJson.val))
    ELSE Throw("Invalid JSON format")

\* updateJsonAtPath whose empty-path return serializes the document instead
\* of the new value
updateJsonAtPathKeepsRoot(jsonText, path, newValue) ==
    UpdateParsedKeepsRoot(JSONparse(jsonText), path, JSONparse(newValue))

updateJsonAtPath(jsonText, path, newValue) ==
    UpdateParsed(JSONparse(jsonText), path, JSONparse(newValue))

----------------------------------------------------------------------------
(* Direct calls of updateJsonAtPath on bounded inputs *)

MaxPathLen == 2     \* the longest path of a direct call
MaxIndex == 1       \* the greatest number segment

KeyA == <<"a">>
KeyB == <<"b">>
Key0 == <<"0">>

\* the documents the calls are made on
Documents ==
    { Obj(<<>>),
      Obj(<<Prop(KeyA, Obj(<<Prop(KeyB, Num(1))>>)), Prop(KeyB, Num(2))>>),
      Obj(<<Prop(KeyA, Arr(<<Num(1)>>)), Prop(KeyB, Str(<<"x", "y">>))>>),
      Obj(<<Prop(KeyA, Null)>>),
      Arr(<<>>),
      Arr(<<Obj(<<Prop(KeyA, Bool(TRUE))>>), Num(0)>>),
      Num(5) }

NotJson == <<"{", "n", "o", "t">>

DocumentTexts == {JSONstringify(d) : d \in Documents} \cup {NotJson}

\* the new-value texts: scalars, containers, and texts that are no JSON
ValueTexts ==
    { <<"7">>, <<"\"", "x", "\"">>, <<"n", "u", "l", "l">>,
      <<"{", "\"", "b", "\"", ":", "[", "0", "]", "}">>, <<"[", "]">>,
      <<"x">>, <<>> }

Segments ==
    {Num(i) : i \in 0..MaxIndex}
    \cup {Str(k) : k \in {KeyA, KeyB, Key0, LengthKey, ConstructorKey, ProtoKey}}

RECURSIVE SeqsUpTo(_, _)
SeqsUpTo(S, n) ==
    IF n = 0 THEN {<<>>}
    ELSE LET shorter == SeqsUpTo(S, n - 1)
         IN  shorter \cup {Append(s, x) : s \in shorter, x \in S}

\* a path argument: absent, or an array of segments
Paths == {Undefined} \cup {Arr(s) : s \in SeqsUpTo(Segments, MaxPathLen)}

NoArgs == [fn |-> "none"]
NoResult == [ok |-> FALSE, text |-> <<>>, error |-> "no call"]

\* the modal as constructed (lines 59-62), over the document text `doc`
ModalInit(doc) ==
    /\ json = doc
    /\ contents = doc
    /\ hasChanges = FALSE
    /\ nodeData = Undefined
    /\ opened = FALSE
    /\ isEditing = FALSE
    /\ editedContent = <<>>
    /\ originalContent = <<>>
    /\ toast = <<"none", "">>
    /\ event = "init"
    /\ committed = <<>>

InitUpdate ==
    /\ ModalInit(<<"{", "}">>)
    /\ args \in [fn : {"updateJsonAtPath"}, json : DocumentTexts,
                 path : Paths, newValue : ValueTexts]
    /\ result = NoResult

CallUpdate ==
    /\ args.fn = "updateJsonAtPath"
    /\ result = NoResult
    /\ result' = updateJsonAtPath(args.json, args.path, args.newValue)
    /\ UNCHANGED <<modalVars, args>>

NextUpdate == CallUpdate

SpecUpdate == InitUpdate /\ [][NextUpdate]_vars

----------------------------------------------------------------------------
(* What the claims about updateJsonAtPath speak of *)

RECURSIVE DeepEqual(_, _)
DeepEqual(x, y) ==
    IF x.kind # y.kind THEN FALSE
    ELSE IF x.kind = "arr"
    THEN /\ Len(x.elems) = Len(y.elems)
         /\ \A i \in 1..Len(x.elems) : DeepEqual(x.elems[i], y.elems[i])
    ELSE IF x.kind = "obj"
    THEN /\ Len(x.members) = Len(y.members)
         /\ \A i \in 1..Len(x.members) :
                /\ HasOwn(y.members, x.members[i].key)
                /\ DeepEqual(x.members[i].val, OwnValue(y.members, x.members[i].key))
    ELSE x = y

IsContainer(v) == v.kind \in {"obj", "arr"}

\* the member of a JSON container under a key, as a document has it
HasMember(v, k) ==
    \/ v.kind = "obj" /\ HasOwn(v.members, k)
    \/ v.kind = "arr" /\ IsElementKey(v.elems, k)

Member(v, k) ==
    IF v.kind = "obj" THEN OwnValue(v.members, k) ELSE v.elems[DigitsToNumber(k) + 1]

MemberKeys(v) ==
    IF v.kind = "obj" THEN {v.members[i].key : i \in 1..Len(v.members)}
    ELSE IF v.kind = "arr" THEN {NumberToString(i - 1) : i \in 1..Len(v.elems)}
    ELSE {}

\* every segment of segs resolves, from v, to a member that is a container
RECURSIVE ResolvesToContainers(_, _)
ResolvesToContainers(v, segs) ==
    \/ segs = <<>>
    \/ /\ HasMember(v, ToPropertyKey(segs[1]))
       /\ IsContainer(Member(v, ToPropertyKey(segs[1])))
       /\ ResolvesToContainers(Member(v, ToPropertyKey(segs[1])), Tail(segs))

\* following segs from v, some lookup is made on a non-container or finds no
\* member under its key
RECURSIVE SomeLookupFails(_, _)
SomeLookupFails(v, segs) ==
    /\ segs # <<>>
    /\ \/ ~IsContainer(v)
       \/ ~HasMember(v, ToPropertyKey(segs[1]))
       \/ SomeLookupFails(Member(v, ToPropertyKey(segs[1])), Tail(segs))

AllButLast(segs) == SubSeq(segs, 1, Len(segs) - 1)

\* the path is valid in the document: all segments but the last resolve to
\* containers
ValidPath(doc, segs) == ResolvesToContainers(doc, AllButLast(segs))

\* the node the last segment is applied to
RECURSIVE NodeAt(_, _)
NodeAt(v, segs) ==
    IF segs = <<>> THEN v ELSE NodeAt(Member(v, ToPropertyKey(segs[1])), Tail(segs))

\* r holds x at the path segs
RECURSIVE HoldsAt(_, _, _)
HoldsAt(r, segs, x) ==
    IF segs = <<>> THEN DeepEqual(r, x)
    ELSE /\ HasMember(r, ToPropertyKey(segs[1]))
         /\ HoldsAt(Member(r, ToPropertyKey(segs[1])), Tail(segs), x)

\* r equals d at every position outside the path segs: along the path the
\* nodes are containers of the same kind whose members off the path are the
\* same and deep-equal
RECURSIVE SameOutside(_, _, _)
SameOutside(d, r, segs) ==
    LET k == ToPropertyKey(segs[1])
    IN  /\ d.kind = r.kind
        /\ MemberKeys(d) \ {k} = MemberKeys(r) \ {k}
        /\ \A q \in MemberKeys(d) \ {k} : DeepEqual(Member(d, q), Member(r, q))
        /\ Len(segs) > 1 =>
              /\ HasMember(d, k) /\ HasMember(r, k)
              /\ SameOutside(Member(d, k), Member(r, k), Tail(segs))

\* the last segment addresses its parent as a JSON path does: a key of an
\* object other than __proto__, or an index of an array that is at most its
\* length
LastSegmentFits(parent, seg) ==
    LET k == ToPropertyKey(seg)
    IN  \/ parent.kind = "obj" /\ k # ProtoKey
        \/ parent.kind = "arr" /\ IsIndexKey(k) /\ DigitsToNumber(k) <= Len(parent.elems)

Called == args.fn = "updateJsonAtPath" /\ result # NoResult
DocArg == JSONparse(args.json)
ValueArg == JSONparse(args.newValue)
PathArg == args.path.elems
Updated == JSONparse(result.text)

\* the call's case of C1: both texts parse and the path is non-empty and valid
RoundTripCase ==
    /\ Called
    /\ DocArg.ok /\ ValueArg.ok
    /\ ~PathIsEmpty(args.path)
    /\ ValidPath(DocArg.val, PathArg)

RoundTripHolds ==
    /\ result.ok
    /\ Updated.ok
    /\ HoldsAt(Updated.val, PathArg, ValueArg.val)
    /\ SameOutside(DocArg.val, Updated.val, PathArg)

\* C1 as stated: for every document, valid non-empty path and value text that
\* parses, the call succeeds and its result holds the parsed value at the
\* path and equals the document everywhere else.
C1_RoundTripAsStated == RoundTripCase => RoundTripHolds

\* C1 amended: the same, for the paths whose last segment is a key of an
\* object parent (other than __proto__) or an index of an array parent that
\* is at most the array's length.
C1_RoundTrip ==
    (RoundTripCase
        /\ LastSegmentFits(NodeAt(DocArg.val, AllButLast(PathArg)),
                           PathArg[Len(PathArg)]))
    => RoundTripHolds

\* a nested member was replaced, and a sibling and an uncle kept
C1_Witness ==
    /\ RoundTripCase
    /\ DocArg.val.kind = "obj"
    /\ Len(PathArg) = 2
    /\ LastSegmentFits(NodeAt(DocArg.val, AllButLast(PathArg)), PathArg[2])
    /\ HasMember(NodeAt(DocArg.val, AllButLast(PathArg)), ToPropertyKey(PathArg[2]))
    /\ Len(DocArg.val.members) = 2
    /\ ValueArg.val.kind = "obj"
    /\ RoundTripHolds
    /\ ~DeepEqual(Updated.val, DocArg.val)

\* C2: the call fails whenever the path is non-empty and, following the
\* segments before the last, some lookup is made on a non-container or finds
\* no member under its key.
C2_FailsOnUnresolvedPath ==
    (/\ Called
     /\ DocArg.ok /\ ValueArg.ok
     /\ ~PathIsEmpty(args.path)
     /\ SomeLookupFails(DocArg.val, AllButLast(PathArg)))
    => ~result.ok

\* C3: the call fails with the one error "Invalid JSON format" whenever the
\* document text or the value text does not parse, whatever the path.
C3_FailsOnMalformedText ==
    (Called /\ (~DocArg.ok \/ ~ValueArg.ok))
    => result = Throw("Invalid JSON format")

\* a malformed document with the empty path and a value that parses
C3_Witness ==
    /\ Called
    /\ ~DocArg.ok /\ ValueArg.ok
    /\ args.path = Arr(<<>>)
    /\ result = Throw("Invalid JSON format")

\* C4: with an empty or absent path and both texts parsing, the call returns
\* the serialization of the parsed value alone.
C4_RootReplacement ==
    (Called /\ DocArg.ok /\ ValueArg.ok /\ PathIsEmpty(args.path))
    => /\ result.ok
       /\ result.text = JSONstringify(ValueArg.val)
       /\ DeepEqual(Updated.val, ValueArg.val)

\* an absent path on a non-empty document, replaced by a container
C4_Witness ==
    /\ Called
    /\ args.path = Undefined
    /\ DocArg.ok /\ DocArg.val.kind = "obj" /\ DocArg.val.members # <<>>
    /\ ValueArg.ok /\ ValueArg.val.kind = "arr"
    /\ result = Return(<<"[", "]">>)

----------------------------------------------------------------------------
(* jsonPathToString, lines 25-30 *)

\* Array.prototype.join of numbers and strings
RECURSIVE Join(_, _)
Join(items, sep) ==
    IF items = <<>> THEN <<>>
    ELSE IF Len(items) = 1 THEN ToString(items[1])
    ELSE ToString(items[1]) \o sep \o Join(Tail(items), sep)

\* line 28 with the typeof test left out: every segment is quoted
QuoteEverySegment(seg) == Str(<<"\"">> \o ToString(seg) \o <<"\"">>)

\* line 28: a number stays a number, anything else is put between quotes
MapSegment(seg) ==
    IF seg.kind = "num" THEN seg ELSE Str(<<"\"">> \o ToString(seg) \o <<"\"">>)

jsonPathToString(path) ==
    IF PathIsEmpty(path) THEN <<"$">>
    ELSE LET segments == [i \in 1..Len(path.elems) |-> MapSegment(path.elems[i])]
         IN  <<"$", "[">> \o Join(segments, <<"]", "[">>) \o <<"]">>

MaxStringifyLen == 3    \* the longest path given to jsonPathToString

StringifySegments ==
    {Num(i) : i \in 0..MaxIndex} \cup {Num(12)}
    \cup {Str(k) : k \in {KeyA, KeyB, Key0}}

StringifyPaths ==
    {Undefined} \cup {Arr(s) : s \in SeqsUpTo(StringifySegments, MaxStringifyLen)}

InitPath ==
    /\ ModalInit(<<"{", "}">>)
    /\ args \in [fn : {"jsonPathToString"}, path : StringifyPaths]
    /\ result = NoResult

CallPathToString ==
    /\ args.fn = "jsonPathToString"
    /\ result = NoResult
    /\ result' = Return(jsonPathToString(args.path))
    /\ UNCHANGED <<modalVars, args>>

NextPath == CallPathToString

SpecPath == InitPath /\ [][NextPath]_vars

\* the bracket group of one segment: bare digits for a number, the text
\* between double quotes for a string
BracketGroup(seg) ==
    IF seg.kind = "num" THEN <<"[">> \o NumberToString(seg.n) \o <<"]">>
    ELSE <<"[", "\"">> \o seg.chars \o <<"\"", "]">>

RECURSIVE BracketGroups(_)
BracketGroups(segs) ==
    IF segs = <<>> THEN <<>> ELSE BracketGroup(segs[1]) \o BracketGroups(Tail(segs))

PathCalled == args.fn = "jsonPathToString" /\ result # NoResult

\* C6: "$" for an empty or absent path; otherwise "$" followed by one bracket
\* group per segment in order, a number as bare digits, a string (digits
\* included) between double quotes.
C6_PathToString ==
    PathCalled =>
        /\ result.ok
        /\ result.text =
              IF args.path = Undefined \/ args.path = Arr(<<>>) THEN <<"$">>
              ELSE <<"$">> \o BracketGroups(args.path.elems)

\* $["a"][0]["0"]: a key, an index, and a key made of a digit
C6_Witness ==
    /\ PathCalled
    /\ args.path = Arr(<<Str(KeyA), Num(0), Str(Key0)>>)
    /\ result.text = <<"$", "[", "\"", "a", "\"", "]", "[", "0", "]",
                       "[", "\"", "0", "\"", "]">>

----------------------------------------------------------------------------
(* normalizeNodeData, lines 11-23.  A row is [key, value, type]; the row   *)
(* list is undefined or an array of rows.                                  *)

Row(k, v, t) == [key |-> k, value |-> v, type |-> t]

\* lines 17-21: the rows written into obj one after the other
RECURSIVE CollectRows(_, _)
CollectRows(rows, obj) ==
    IF rows = <<>> THEN obj
    ELSE CollectRows(Tail(rows),
                     IF /\ rows[1].type # "array"
                        /\ rows[1].type # "object"
                        /\ Truthy(rows[1].key)
                     THEN Set(obj, rows[1].key, rows[1].value).val
                     ELSE obj)

\* normalizeNodeData without the test of line 18: container rows are kept
normalizeNodeDataKeepsContainers(nodeRows) ==
    IF ~Truthy(nodeRows) \/ Len(nodeRows.elems) = 0 THEN <<"{", "}">>
    ELSE IF Len(nodeRows.elems) = 1 /\ ~Truthy(nodeRows.elems[1].key)
    THEN ToString(nodeRows.elems[1].value)
    ELSE JSONstringify(
            CollectRows([i \in 1..Len(nodeRows.elems) |->
                            [nodeRows.elems[i] EXCEPT !.type = "number"]],
                        Obj(<<>>)))

normalizeNodeData(nodeRows) ==
    IF ~Truthy(nodeRows) \/ Len(nodeRows.elems) = 0 THEN <<"{", "}">>
    ELSE IF Len(nodeRows.elems) = 1 /\ ~Truthy(nodeRows.elems[1].key)
    THEN ToString(nodeRows.elems[1].value)
    ELSE JSONstringify(CollectRows(nodeRows.elems, Obj(<<>>)))

MaxRows == 2    \* the longest row list given to normalizeNodeData

RowKeys == {Undefined, Str(<<>>), Str(KeyA), Str(KeyB), Str(ProtoKey)}

\* a row's value with the type the tree gave it
RowValues ==
    { <<Num(5), "number">>, <<Str(<<"h", "i">>), "string">>, <<Null, "null">>,
      <<Bool(TRUE), "boolean">>, <<Arr(<<>>), "array">>, <<Obj(<<>>), "object">> }

Rows == {Row(k, vt[1], vt[2]) : k \in RowKeys, vt \in RowValues}

RowLists == {Undefined} \cup {Arr(s) : s \in SeqsUpTo(Rows, MaxRows)}

InitNormalize ==
    /\ ModalInit(<<"{", "}">>)
    /\ args \in [fn : {"normalizeNodeData"}, nodeRows : RowLists]
    /\ result = NoResult

CallNormalize ==
    /\ args.fn = "normalizeNodeData"
    /\ result = NoResult
    /\ result' = Return(normalizeNodeData(args.nodeRows))
    /\ UNCHANGED <<modalVars, args>>

NextNormalize == CallNormalize

SpecNormalize == InitNormalize /\ [][NextNormalize]_vars

NormalizeCalled == args.fn = "normalizeNodeData" /\ result # NoResult
RowsArg == args.nodeRows.elems
Normalized == JSONparse(result.text)

NoRows == args.nodeRows = Undefined \/ args.nodeRows = Arr(<<>>)
SingleKeylessRow == ~NoRows /\ Len(RowsArg) = 1 /\ ~Truthy(RowsArg[1].key)

\* the row's type is neither "array" nor "object" and its key is present
Qualifies(row) == row.type \notin {"array", "object"} /\ Truthy(row.key)

\* the object has the entry key -> value of the row
HasEntry(obj, row) ==
    /\ row.key.kind = "str"
    /\ HasOwn(obj.members, row.key.chars)
    /\ DeepEqual(OwnValue(obj.members, row.key.chars), row.value)

Decides(rows, i) ==
    /\ Qualifies(rows[i])
    /\ rows[i].key.chars # ProtoKey
    /\ \A j \in (i + 1)..Len(rows) : ~(Qualifies(rows[j]) /\ rows[j].key = rows[i].key)

C8_ScalarRowIsJsonText ==
    (NormalizeCalled /\ SingleKeylessRow
        /\ RowsArg[1].value.kind \in {"num", "bool", "null", "str"})
    => (Normalized.ok /\ DeepEqual(Normalized.val, RowsArg[1].value))

----------------------------------------------------------------------------
(* The selection provider (useGraph's selectedNode).  The graph builder is *)
(* not part of the source file; a node is modelled from the data model of   *)
(* the specification: an object is a node with one row per property, a      *)
(* scalar that is the root or an array element is a node with one keyless   *)
(* row, and a node's path is the root-to-node sequence of keys and indices. *)

TypeOf(v) ==
    CASE v.kind = "obj" -> "object"
      [] v.kind = "arr" -> "array"
      [] v.kind = "str" -> "string"
      [] v.kind = "num" -> "number"
      [] v.kind = "bool" -> "boolean"
      [] OTHER -> "null"

Node(rows, path) == [kind |-> "node", text |-> Arr(rows), path |-> Arr(path)]

RowsOf(members) ==
    [i \in 1..Len(members) |->
        Row(Str(members[i].key), members[i].val, TypeOf(members[i].val))]

RECURSIVE NodesOf(_, _)
NodesOf(v, path) ==
    IF v.kind = "obj"
    THEN {Node(RowsOf(v.members), path)}
         \cup UNION {NodesOf(v.members[i].val, Append(path, Str(v.members[i].key))) :
                        i \in {j \in 1..Len(v.members) : IsContainer(v.members[j].val)}}
    ELSE IF v.kind = "arr"
    THEN UNION {NodesOf(v.elems[i], Append(path, Num(i - 1))) : i \in 1..Len(v.elems)}
    ELSE {Node(<<Row(Null, v, TypeOf(v))>>, path)}

\* the nodes of the graph of a document text
GraphNodes(text) ==
    LET doc == JSONparse(text) IN IF doc.ok THEN NodesOf(doc.val, <<>>) ELSE {}

----------------------------------------------------------------------------
(* NodeModal, lines 58-101 *)

MaxNodeDepth == 2   \* the longest path of a node that is selected

\* the documents the store starts with
ModalDocuments ==
    { Obj(<<Prop(KeyA, Obj(<<Prop(KeyB, Num(1))>>)), Prop(KeyB, Num(2))>>),
      Arr(<<Str(<<"h", "i">>), Num(5)>>),
      Obj(<<Prop(KeyA, Arr(<<Arr(<<Bool(TRUE)>>), Obj(<<Prop(KeyB, Num(1))>>)>>))>>) }

\* what the user types into the textarea
EditTexts ==
    { <<"7">>, <<"{", "\"", "a", "\"", ":", "7", "}">>, <<"{">> }

Init ==
    /\ \E d \in ModalDocuments : ModalInit(JSONstringify(d))
    /\ args = NoArgs
    /\ result = NoResult

\* lines 64-70: the effect that runs when nodeData or opened has changed
Effect(node) ==
    IF Truthy(node)
    THEN /\ editedContent' = normalizeNodeData(node.text)
         /\ originalContent' = editedContent'
         /\ committed' = editedContent'
    ELSE UNCHANGED <<editedContent, originalContent, committed>>

\* a node of the graph is selected; the effect runs
SelectNode ==
    \E n \in GraphNodes(json) :
        /\ Len(n.path.elems) <= MaxNodeDepth
        /\ nodeData' = n
        /\ Effect(n)
        /\ event' = "select"
        /\ UNCHANGED <<json, contents, hasChanges, opened, isEditing, toast,
                       args, result>>

\* the modal is opened or closed; the effect runs
SetOpened ==
    /\ opened' = ~opened
    /\ Effect(nodeData)
    /\ event' = "opened"
    /\ UNCHANGED <<json, contents, hasChanges, nodeData, isEditing, toast,
                   args, result>>

\* lines 72-74; the Edit button is rendered while not editing (lines 157-161)
handleEdit ==
    /\ opened /\ ~isEditing
    /\ isEditing' = TRUE
    /\ event' = "edit"
    /\ UNCHANGED <<json, contents, hasChanges, nodeData, opened, editedContent,
                   originalContent, toast, committed, args, result>>

\* line 117; the Textarea is rendered while editing (lines 114-121)
ChangeText ==
    /\ opened /\ isEditing
    /\ \E t \in EditTexts : editedContent' = t
    /\ event' = "change"
    /\ UNCHANGED <<json, contents, hasChanges, nodeData, opened, isEditing,
                   originalContent, toast, committed, args, result>>

\* nodeData?.path
PathOf(node) == IF Truthy(node) THEN node.path ELSE Undefined

\* lines 82-85 with the stores written before the update is known to succeed
SaveWritesFirst(updatedJson) ==
    /\ json' = (IF updatedJson.ok THEN updatedJson.text ELSE editedContent)
    /\ contents' = json'
    /\ hasChanges' = TRUE
    /\ IF updatedJson.ok
       THEN /\ originalContent' = editedContent
            /\ committed' = editedContent
            /\ toast' = <<"success", "Changes saved successfully!">>
            /\ isEditing' = FALSE
            /\ event' = "saved"
       ELSE /\ toast' = <<"error", updatedJson.error>>
            /\ event' = "save failed"
            /\ UNCHANGED <<originalContent, committed, isEditing>>

\* lines 81-93 after the call of line 79: the try block goes on when the
\* call returned, the catch block runs when it threw
Save(updatedJson) ==
    IF updatedJson.ok
    THEN /\ json' = updatedJson.text
         /\ contents' = updatedJson.text
         /\ hasChanges' = TRUE
         /\ originalContent' = editedContent
         /\ committed' = editedContent
         /\ toast' = <<"success", "Changes saved successfully!">>
         /\ isEditing' = FALSE
         /\ event' = "saved"
    ELSE /\ toast' = <<"error", updatedJson.error>>
         /\ event' = "save failed"
         /\ UNCHANGED <<json, contents, hasChanges, originalContent,
                        committed, isEditing>>

\* lines 76-95; the Save button is rendered while editing (lines 148-156)
handleSave ==
    /\ opened /\ isEditing
    /\ Save(updateJsonAtPath(json, PathOf(nodeData), editedContent))
    /\ UNCHANGED <<nodeData, opened, editedContent, args, result>>

\* handleCancel that only leaves editing mode
handleCancelKeepsText ==
    /\ opened /\ isEditing
    /\ isEditing' = FALSE
    /\ event' = "cancel"
    /\ UNCHANGED <<json, contents, hasChanges, nodeData, opened, editedContent,
                   originalContent, toast, committed, args, result>>

\* lines 97-101; the Cancel button is rendered while editing (lines 148-156)
handleCancel ==
    /\ opened /\ isEditing
    /\ editedContent' = originalContent
    /\ isEditing' = FALSE
    /\ event' = "cancel"
    /\ UNCHANGED <<json, contents, hasChanges, nodeData, opened, originalContent,
                   toast, committed, args, result>>

Next ==
    \/ SelectNode
    \/ SetOpened
    \/ handleEdit
    \/ ChangeText
    \/ handleSave
    \/ handleCancel

Spec == Init /\ [][Next]_vars

----------------------------------------------------------------------------
(* What the claims about the modal speak of *)

\* the step is a run of handleSave
SaveStep == event' \in {"saved", "save failed"} /\ ~(UNCHANGED vars)

\* the step is a run of handleCancel
CancelStep == event' = "cancel"

\* what updateJsonAtPath gives handleSave in the current state
SaveResult == updateJsonAtPath(json, PathOf(nodeData), editedContent)

\* the document store or the file store is written by the step
StoresWritten == json' # json \/ contents' # contents \/ hasChanges' # hasChanges

\* C5: the document store and the file store are written only by a save
\* whose updateJsonAtPath call returned, both with the text it returned; a
\* save whose call failed leaves the document, the file contents, the edited
\* text, the original content and the editing flag as they were and emits an
\* error notification only.
C5_SaveAllOrNothing ==
    [][/\ StoresWritten => (event' = "saved" /\ SaveResult.ok)
       /\ (SaveStep /\ SaveResult.ok) =>
             /\ json' = SaveResult.text
             /\ contents' = SaveResult.text
             /\ hasChanges'
       /\ (SaveStep /\ ~SaveResult.ok) =>
             /\ UNCHANGED <<json, contents, hasChanges, editedContent,
                            originalContent, isEditing>>
             /\ toast' = <<"error", SaveResult.error>>]_vars

\* a save failed after an earlier one had succeeded: the stores still hold
\* the text of the first save and the modal is still editing
C5_Witness ==
    /\ event = "save failed"
    /\ toast = <<"error", "Invalid JSON format">>
    /\ isEditing
    /\ hasChanges
    /\ json = contents
    /\ editedContent # originalContent

\* the selected node was derived from the stored document and the text is
\* the one the effect loaded
Untouched ==
    /\ nodeData \in GraphNodes(json)
    /\ originalContent = normalizeNodeData(nodeData.text)
    /\ editedContent = originalContent

\* C9: a save of the loaded text, unchanged, on a node derived from the
\* stored document succeeds and leaves the document semantically equal to
\* the document before the save.
C9_SaveWithoutEditIsNoOp ==
    [][(SaveStep /\ Untouched) =>
          /\ event' = "saved"
          /\ JSONparse(json').ok
          /\ DeepEqual(JSONparse(json').val, JSONparse(json).val)]_vars

\* C10: whenever the modal is not editing, editedContent equals
\* originalContent; Cancel restores editedContent to the content of the last
\* successful save or last load, leaves editing mode, and writes neither
\* store.
C10_CancelRestores ==
    /\ [](~isEditing => editedContent = originalContent)
    /\ [][CancelStep =>
             /\ editedContent' = committed
             /\ ~isEditing'
             /\ ~StoresWritten]_vars

\* a cancel after a successful save and a further change of the text: the
\* text shown is the saved one
C10_Witness ==
    /\ event = "cancel"
    /\ hasChanges
    /\ ~isEditing
    /\ editedContent = committed
    /\ editedContent = originalContent
    /\ editedContent \in EditTexts

=============================================================================
